---- MODULE Spec2Model ----
(***************************************************************************)
(* String Analyzer Service (src/app/main.py).                              *)
(*                                                                         *)
(* A string is a sequence of one-character strings.  The module models     *)
(*   - compute_properties and parse_nl_query as operators on such strings, *)
(*   - the table "strings" with its primary key (id) and unique (value)    *)
(*     constraints,                                                        *)
(*   - the request handlers, and the router that picks the handler of a    *)
(*     request path in registration order.                                 *)
(***************************************************************************)
EXTENDS Integers, Sequences, FiniteSets, Bags, TLC

VARIABLES
    store,      \* the rows of table "strings"
    inflight,   \* the handlers between their read and their commit (a bag)
    resp,       \* the last request answered and its reply
    arg,        \* input of compute_properties
    result      \* its output

vars == <<store, inflight, resp, arg, result>>

-----------------------------------------------------------------------------
(* Characters and strings *)

\* The characters with code points 32..95, in order
Printable ==
    <<" ", "!", "\"", "#", "$", "%", "&", "'", "(", ")", "*", "+", ",", "-", ".", "/",
      "0", "1", "2", "3", "4", "5", "6", "7", "8", "9", ":", ";", "<", "=", ">", "?",
      "@", "A", "B", "C", "D", "E", "F", "G", "H", "I", "J", "K", "L", "M", "N", "O",
      "P", "Q", "R", "S", "T", "U", "V", "W", "X", "Y", "Z", "[", "\\", "]", "^", "_">>

\* The characters with code points 97..126, in order
LowerPrintable ==
    <<"a", "b", "c", "d", "e", "f", "g", "h", "i", "j", "k", "l", "m", "n", "o",
      "p", "q", "r", "s", "t", "u", "v", "w", "x", "y", "z", "{", "|", "}", "~">>

CharSet ==
    {Printable[i] : i \in DOMAIN Printable}
        \cup {LowerPrintable[i] : i \in DOMAIN LowerPrintable} \cup {"\t", "\n"}

\* ord(ch): the code point (ASCII: tab 9, newline 10, printable 32..95 and 97..126)
OrdTable ==
    [ch \in CharSet |->
        IF ch = "\t" THEN 9
        ELSE IF ch = "\n" THEN 10
        ELSE IF \E i \in DOMAIN Printable : Printable[i] = ch
             THEN 31 + (CHOOSE i \in DOMAIN Printable : Printable[i] = ch)
             ELSE 96 + (CHOOSE i \in DOMAIN LowerPrintable : LowerPrintable[i] = ch)]

Ord(ch) == OrdTable[ch]

\* chr(n)
Chr(n) == IF n >= 97 THEN LowerPrintable[n - 96] ELSE Printable[n - 31]

\* str.lower(), one character
LowerChar(ch) == IF Ord(ch) >= 65 /\ Ord(ch) <= 90 THEN Chr(Ord(ch) + 32) ELSE ch

\* str.lower()
Lower(s) == [i \in DOMAIN s |-> LowerChar(s[i])]

\* s[::-1]
Reverse(s) == [i \in DOMAIN s |-> s[Len(s) + 1 - i]]

\* str.isspace(), one character
IsSpace(ch) == Ord(ch) \in {9, 10, 32}

\* \d, one character
IsDigit(ch) == Ord(ch) >= 48 /\ Ord(ch) <= 57

\* [a-z], one character
IsLowerLetter(ch) == Ord(ch) >= 97 /\ Ord(ch) <= 122

\* str.lstrip()
RECURSIVE LStrip(_)
LStrip(s) == IF s # <<>> /\ IsSpace(Head(s)) THEN LStrip(Tail(s)) ELSE s

\* str.strip()
Strip(s) == Reverse(LStrip(Reverse(LStrip(s))))

\* str.split(): the maximal runs of non-whitespace characters, in order
RECURSIVE SplitFrom(_, _, _)
SplitFrom(s, cur, acc) ==
    IF s = <<>> THEN (IF cur = <<>> THEN acc ELSE Append(acc, cur))
    ELSE IF IsSpace(Head(s))
         THEN SplitFrom(Tail(s), <<>>, IF cur = <<>> THEN acc ELSE Append(acc, cur))
         ELSE SplitFrom(Tail(s), Append(cur, Head(s)), acc)

Split(s) == SplitFrom(s, <<>>, <<>>)

\* int -> decimal text (str(n), n >= 0)
RECURSIVE IntToDec(_)
IntToDec(n) ==
    IF n < 10 THEN <<Chr(48 + n)>> ELSE Append(IntToDec(n \div 10), Chr(48 + (n % 10)))

\* decimal text -> int (int(s))
RECURSIVE DecToInt(_)
DecToInt(s) ==
    IF s = <<>> THEN 0
    ELSE 10 * DecToInt(SubSeq(s, 1, Len(s) - 1)) + (Ord(s[Len(s)]) - 48)

-----------------------------------------------------------------------------
(* Python dict: insertion-ordered key/value pairs with unique keys *)

EmptyDict == <<>>

DictKeys(d) == {d[i][1] : i \in DOMAIN d}

\* d.get(k, default)
DictGet(d, k, default) ==
    IF k \in DictKeys(d) THEN d[CHOOSE i \in DOMAIN d : d[i][1] = k][2] ELSE default

\* d[k] = v
DictPut(d, k, v) ==
    IF k \in DictKeys(d)
    THEN [i \in DOMAIN d |-> IF d[i][1] = k THEN <<k, v>> ELSE d[i]]
    ELSE Append(d, <<k, v>>)

-----------------------------------------------------------------------------
(* compute_properties *)

\* Width of the hex digest.  hashlib.sha256(...).hexdigest() is abstracted by a
\* multiplicative digest of the bytes, rendered as HexLen lowercase hex digits.
HexLen == 2

HexDigits == <<"0", "1", "2", "3", "4", "5", "6", "7", "8", "9", "a", "b", "c", "d", "e", "f">>

RECURSIVE Pow16(_)
Pow16(n) == IF n = 0 THEN 1 ELSE 16 * Pow16(n - 1)

RECURSIVE Digest(_, _)
Digest(s, h) ==
    IF s = <<>> THEN h ELSE Digest(Tail(s), (h * 37 + Ord(Head(s))) % Pow16(HexLen))

RECURSIVE HexOf(_, _)
HexOf(n, width) ==
    IF width = 0 THEN <<>> ELSE Append(HexOf(n \div 16, width - 1), HexDigits[(n % 16) + 1])

\* hashlib.sha256(v.encode("utf-8")).hexdigest()
Sha256Hex(v) == HexOf(Digest(v, 7), HexLen)

\* a variant of the counting loop that folds case before counting
RECURSIVE CountCharsFolded(_, _)
CountCharsFolded(v, freq) ==
    IF v = <<>> THEN freq
    ELSE CountCharsFolded(Tail(v),
             DictPut(freq, LowerChar(Head(v)), DictGet(freq, LowerChar(Head(v)), 0) + 1))

\* for ch in v: freq[ch] = freq.get(ch, 0) + 1
RECURSIVE CountChars(_, _)
CountChars(v, freq) ==
    IF v = <<>> THEN freq
    ELSE CountChars(Tail(v), DictPut(freq, Head(v), DictGet(freq, Head(v), 0) + 1))

compute_properties(value) ==
    [ length                  |-> Len(value),
      is_palindrome           |-> Lower(value) = Reverse(Lower(value)),
      unique_characters       |-> Cardinality({value[i] : i \in DOMAIN value}),
      word_count              |-> IF Strip(value) = <<>> THEN 0 ELSE Len(Split(value)),
      sha256_hash             |-> Sha256Hex(value),
      character_frequency_map |-> CountChars(value, EmptyDict) ]

-----------------------------------------------------------------------------
(* json.dumps / json.loads of the property record *)

\* A JSON string token: the text between double quotes, " and \ escaped
RECURSIVE JsonEscape(_)
JsonEscape(s) ==
    IF s = <<>> THEN <<>>
    ELSE (IF Head(s) \in {"\"", "\\"} THEN <<"\\", Head(s)>>
          ELSE IF Head(s) = "\n" THEN <<"\\", "n">>
          ELSE IF Head(s) = "\t" THEN <<"\\", "t">>
          ELSE <<Head(s)>>) \o JsonEscape(Tail(s))

RECURSIVE JsonUnescape(_)
JsonUnescape(s) ==
    IF s = <<>> THEN <<>>
    ELSE IF Head(s) = "\\"
         THEN <<(IF s[2] = "n" THEN "\n" ELSE IF s[2] = "t" THEN "\t" ELSE s[2])>>
                  \o JsonUnescape(Tail(Tail(s)))
         ELSE <<Head(s)>> \o JsonUnescape(Tail(s))

JsonString(s) == <<"\"">> \o JsonEscape(s) \o <<"\"">>

JsonStringValue(t) == JsonUnescape(SubSeq(t, 2, Len(t) - 1))

TrueToken == <<"t", "r", "u", "e">>

FalseToken == <<"f", "a", "l", "s", "e">>

\* json.dumps(props): the members in order, each value as its JSON text; the
\* frequency map is an object whose member names are the characters
JsonDumps(props) ==
    [ length                  |-> IntToDec(props.length),
      is_palindrome           |-> IF props.is_palindrome THEN TrueToken ELSE FalseToken,
      unique_characters       |-> IntToDec(props.unique_characters),
      word_count              |-> IntToDec(props.word_count),
      sha256_hash             |-> JsonString(props.sha256_hash),
      character_frequency_map |->
          [i \in DOMAIN props.character_frequency_map |->
              <<JsonString(<<props.character_frequency_map[i][1]>>),
                IntToDec(props.character_frequency_map[i][2])>>] ]

\* an object's members into a dict; a repeated name keeps its last value
RECURSIVE LoadMembers(_, _)
LoadMembers(members, acc) ==
    IF members = <<>> THEN acc
    ELSE LoadMembers(Tail(members),
                     DictPut(acc, JsonStringValue(Head(members)[1])[1],
                             DecToInt(Head(members)[2])))

\* json.loads(text)
JsonLoads(text) ==
    [ length                  |-> DecToInt(text.length),
      is_palindrome           |-> text.is_palindrome = TrueToken,
      unique_characters       |-> DecToInt(text.unique_characters),
      word_count              |-> DecToInt(text.word_count),
      sha256_hash             |-> JsonStringValue(text.sha256_hash),
      character_frequency_map |-> LoadMembers(text.character_frequency_map, EmptyDict) ]

-----------------------------------------------------------------------------
(* parse_nl_query *)

\* "single word"
SingleWordPat == <<"s", "i", "n", "g", "l", "e", " ", "w", "o", "r", "d">>

\* "one word"
OneWordPat == <<"o", "n", "e", " ", "w", "o", "r", "d">>

\* "longer than "
LongerThanPat == <<"l", "o", "n", "g", "e", "r", " ", "t", "h", "a", "n", " ">>

\* "palindrom"
PalindromPat == <<"p", "a", "l", "i", "n", "d", "r", "o", "m">>

\* "contain"
ContainPat == <<"c", "o", "n", "t", "a", "i", "n">>

\* "ing"
IngPat == <<"i", "n", "g">>

\* "s"
SPat == <<"s">>

\* "the "
ThePat == <<"t", "h", "e", " ">>

\* "letter "
LetterPat == <<"l", "e", "t", "t", "e", "r", " ">>

\* "first vowel"
FirstVowelPat == <<"f", "i", "r", "s", "t", " ", "v", "o", "w", "e", "l">>

\* "conflicting"
ConflictingWord == <<"c", "o", "n", "f", "l", "i", "c", "t", "i", "n", "g">>

\* "Query parsed but resulted in conflicting filters"
ConflictingFiltersMsg ==
    <<"Q", "u", "e", "r", "y", " ", "p", "a", "r", "s", "e", "d", " ", "b", "u", "t",
      " ", "r", "e", "s", "u", "l", "t", "e", "d", " ", "i", "n", " ", "c", "o", "n",
      "f", "l", "i", "c", "t", "i", "n", "g", " ", "f", "i", "l", "t", "e", "r", "s">>

\* "Unable to parse natural language query"
UnableToParseMsg ==
    <<"U", "n", "a", "b", "l", "e", " ", "t", "o", " ", "p", "a", "r", "s", "e", " ",
      "n", "a", "t", "u", "r", "a", "l", " ", "l", "a", "n", "g", "u", "a", "g", "e",
      " ", "q", "u", "e", "r", "y">>

\* pat matches s at (1-based) position i
MatchAt(s, i, pat) ==
    /\ i >= 1
    /\ i + Len(pat) - 1 <= Len(s)
    /\ \A j \in 1..Len(pat) : s[i + j - 1] = pat[j]

\* re.search of a literal; also "pat in s"
Contains(s, pat) == \E i \in 1..(Len(s) + 1) : MatchAt(s, i, pat)

\* the end (exclusive) of the maximal run of digits that starts at i
RECURSIVE DigitsEnd(_, _)
DigitsEnd(s, i) == IF i <= Len(s) /\ IsDigit(s[i]) THEN DigitsEnd(s, i + 1) ELSE i

\* re.search(r"longer than (\d+)", s): the start positions that match
LongerThanStarts(s) ==
    {i \in 1..Len(s) : /\ MatchAt(s, i, LongerThanPat)
                       /\ i + Len(LongerThanPat) <= Len(s)
                       /\ IsDigit(s[i + Len(LongerThanPat)])}

\* m.group(1) of the leftmost match
LongerThanGroup(s) ==
    LET i == CHOOSE k \in LongerThanStarts(s) : \A o \in LongerThanStarts(s) : k <= o
        g == i + Len(LongerThanPat)
    IN  SubSeq(s, g, DigitsEnd(s, g) - 1)

\* contain(?:ing|s)? (?:the )?letter ([a-z]) matched from position i: the
\* positions group 1 can take
LetterGroupAt(s, i) ==
    IF ~MatchAt(s, i, ContainPat) THEN {}
    ELSE LET j  == i + Len(ContainPat)
             afterSuffix == {j} \cup (IF MatchAt(s, j, IngPat) THEN {j + Len(IngPat)} ELSE {})
                                \cup (IF MatchAt(s, j, SPat) THEN {j + Len(SPat)} ELSE {})
             afterSpace == {e + 1 : e \in {x \in afterSuffix : MatchAt(s, x, <<" ">>)}}
             afterThe == afterSpace
                           \cup {f + Len(ThePat) : f \in {x \in afterSpace : MatchAt(s, x, ThePat)}}
         IN  {g + Len(LetterPat) :
                 g \in {x \in afterThe : /\ MatchAt(s, x, LetterPat)
                                         /\ x + Len(LetterPat) <= Len(s)
                                         /\ IsLowerLetter(s[x + Len(LetterPat)])}}

LetterStarts(s) == {i \in 1..Len(s) : LetterGroupAt(s, i) # {}}

\* m.group(1) of the leftmost match
LetterGroup(s) ==
    LET i == CHOOSE k \in LetterStarts(s) : \A o \in LetterStarts(s) : k <= o
    IN  s[CHOOSE p \in LetterGroupAt(s, i) : TRUE]

Rule1(q_lower) == Contains(q_lower, SingleWordPat) \/ Contains(q_lower, OneWordPat)

Rule2(q_lower) == LongerThanStarts(q_lower) # {}

Rule3(q_lower) == Contains(q_lower, PalindromPat)

Rule4(q_lower) == LetterStarts(q_lower) # {}

Rule5(q_lower) == Contains(q_lower, FirstVowelPat)

\* a variant in which the five tests form an if/elif chain: a rule is applied
\* only while no earlier rule has matched
ApplyRuleElif(k, q_lower, parsed) ==
    IF parsed # EmptyDict THEN parsed
    ELSE IF k = 1 THEN (IF Rule1(q_lower) THEN DictPut(parsed, "word_count", 1) ELSE parsed)
    ELSE IF k = 2
         THEN (IF Rule2(q_lower)
               THEN DictPut(parsed, "min_length", DecToInt(LongerThanGroup(q_lower)) + 1)
               ELSE parsed)
    ELSE IF k = 3 THEN (IF Rule3(q_lower) THEN DictPut(parsed, "is_palindrome", TRUE) ELSE parsed)
    ELSE IF k = 4
         THEN (IF Rule4(q_lower)
               THEN DictPut(parsed, "contains_character", LetterGroup(q_lower))
               ELSE parsed)
    ELSE (IF Rule5(q_lower) THEN DictPut(parsed, "contains_character", "a") ELSE parsed)

\* a variant in which the "first vowel" test stands before the "letter" test
ApplyRuleVowelFirst(k, q_lower, parsed) ==
    IF k = 1 THEN (IF Rule1(q_lower) THEN DictPut(parsed, "word_count", 1) ELSE parsed)
    ELSE IF k = 2
         THEN (IF Rule2(q_lower)
               THEN DictPut(parsed, "min_length", DecToInt(LongerThanGroup(q_lower)) + 1)
               ELSE parsed)
    ELSE IF k = 3 THEN (IF Rule3(q_lower) THEN DictPut(parsed, "is_palindrome", TRUE) ELSE parsed)
    ELSE IF k = 4
         THEN (IF Rule5(q_lower) THEN DictPut(parsed, "contains_character", "a") ELSE parsed)
    ELSE (IF Rule4(q_lower)
          THEN DictPut(parsed, "contains_character", LetterGroup(q_lower))
          ELSE parsed)

\* rule k applied to the dict "parsed"
ApplyRule(k, q_lower, parsed) ==
    IF k = 1 THEN (IF Rule1(q_lower) THEN DictPut(parsed, "word_count", 1) ELSE parsed)
    ELSE IF k = 2
         THEN (IF Rule2(q_lower)
               THEN DictPut(parsed, "min_length", DecToInt(LongerThanGroup(q_lower)) + 1)
               ELSE parsed)
    ELSE IF k = 3 THEN (IF Rule3(q_lower) THEN DictPut(parsed, "is_palindrome", TRUE) ELSE parsed)
    ELSE IF k = 4
         THEN (IF Rule4(q_lower)
               THEN DictPut(parsed, "contains_character", LetterGroup(q_lower))
               ELSE parsed)
    ELSE (IF Rule5(q_lower) THEN DictPut(parsed, "contains_character", "a") ELSE parsed)

\* the five rules in order, from rule k on
RECURSIVE ApplyRules(_, _, _)
ApplyRules(k, q_lower, parsed) ==
    IF k > 5 THEN parsed ELSE ApplyRules(k + 1, q_lower, ApplyRule(k, q_lower, parsed))

\* the two checks that follow the rules: what is returned, or the ValueError raised
CheckParsed(parsed) ==
    IF /\ "min_length" \in DictKeys(parsed)
       /\ "max_length" \in DictKeys(parsed)
       /\ DictGet(parsed, "min_length", 0) > DictGet(parsed, "max_length", 0)
    THEN [raised |-> TRUE, error |-> ConflictingFiltersMsg]
    ELSE IF Len(parsed) = 0
    THEN [raised |-> TRUE, error |-> UnableToParseMsg]
    ELSE [raised |-> FALSE, parsed |-> parsed]

parse_nl_query(q) == CheckParsed(ApplyRules(1, Lower(q), EmptyDict))

-----------------------------------------------------------------------------
(* The table "strings" and its rows (class StringEntry) *)

\* datetime.isoformat() of a clock reading (the clock counts ticks)
IsoFormat(t) == IntToDec(t)

\* StringEntry(id=sha, value=..., properties_json=json.dumps(props), created_at=now)
StringEntry(value, props, now) ==
    [ id              |-> props.sha256_hash,
      value           |-> value,
      properties_json |-> JsonDumps(props),
      created_at      |-> now ]

row_to_response(row) ==
    [ id         |-> row.id,
      value      |-> row.value,
      properties |-> JsonLoads(row.properties_json),
      created_at |-> IsoFormat(row.created_at) ]

\* db.query(StringEntry).filter(StringEntry.id == key).first(): no row or one
FirstById(st, key) ==
    IF \E r \in st : r.id = key THEN {CHOOSE r \in st : r.id = key} ELSE {}

\* db.query(StringEntry).filter(StringEntry.value == key).first(): no row or one
FirstByValue(st, key) ==
    IF \E r \in st : r.value = key THEN {CHOOSE r \in st : r.value = key} ELSE {}

\* INSERT under the primary key on id and the unique constraint on value
InsertAllowed(st, row) == \A r \in st : r.id # row.id /\ r.value # row.value

\* db.query(StringEntry).all(): the rows in an order the database chooses
Scan(st) ==
    {rows \in [1..Cardinality(st) -> st] : \A i, j \in DOMAIN rows : i # j => rows[i] # rows[j]}

-----------------------------------------------------------------------------
(* Responses *)

\* "min_length cannot be greater than max_length"
MinGreaterMaxMsg ==
    <<"m", "i", "n", "_", "l", "e", "n", "g", "t", "h", " ", "c", "a", "n", "n", "o",
      "t", " ", "b", "e", " ", "g", "r", "e", "a", "t", "e", "r", " ", "t", "h", "a",
      "n", " ", "m", "a", "x", "_", "l", "e", "n", "g", "t", "h">>

\* "String already exists in the system"
AlreadyExistsMsg ==
    <<"S", "t", "r", "i", "n", "g", " ", "a", "l", "r", "e", "a", "d", "y", " ", "e",
      "x", "i", "s", "t", "s", " ", "i", "n", " ", "t", "h", "e", " ", "s", "y", "s",
      "t", "e", "m">>

\* "String does not exist in the system"
DoesNotExistMsg ==
    <<"S", "t", "r", "i", "n", "g", " ", "d", "o", "e", "s", " ", "n", "o", "t", " ",
      "e", "x", "i", "s", "t", " ", "i", "n", " ", "t", "h", "e", " ", "s", "y", "s",
      "t", "e", "m">>

\* "Internal Server Error"
InternalErrorMsg ==
    <<"I", "n", "t", "e", "r", "n", "a", "l", " ", "S", "e", "r", "v", "e", "r", " ",
      "E", "r", "r", "o", "r">>

\* What a handler returns or raises.  scanned counts the rows list_strings read.
Reply(handler, status, detail, data) ==
    [ handler |-> handler, status |-> status, detail |-> detail, data |-> data,
      count |-> 0, filters_applied |-> EmptyDict, interpreted_query |-> <<>>, scanned |-> 0 ]

NoReply == Reply("none", 0, <<>>, <<>>)

-----------------------------------------------------------------------------
(* list_strings and nl_filter *)

Has(d, k) == k \in DictKeys(d)

\* a variant whose min_length comparison is strict
MatchesStrictMin(props, f) ==
    /\ ~(Has(f, "is_palindrome") /\ props.is_palindrome # DictGet(f, "is_palindrome", FALSE))
    /\ ~(Has(f, "min_length") /\ props.length <= DictGet(f, "min_length", 0))
    /\ ~(Has(f, "max_length") /\ props.length > DictGet(f, "max_length", 0))
    /\ ~(Has(f, "word_count") /\ props.word_count # DictGet(f, "word_count", 0))
    /\ ~(/\ Has(f, "contains_character")
         /\ DictGet(props.character_frequency_map, DictGet(f, "contains_character", ""), 0) = 0)

\* the body of the loop over rows: ok
Matches(props, f) ==
    /\ ~(Has(f, "is_palindrome") /\ props.is_palindrome # DictGet(f, "is_palindrome", FALSE))
    /\ ~(Has(f, "min_length") /\ props.length < DictGet(f, "min_length", 0))
    /\ ~(Has(f, "max_length") /\ props.length > DictGet(f, "max_length", 0))
    /\ ~(Has(f, "word_count") /\ props.word_count # DictGet(f, "word_count", 0))
    /\ ~(/\ Has(f, "contains_character")
         /\ DictGet(props.character_frequency_map, DictGet(f, "contains_character", ""), 0) = 0)

\* results: the rows that match, in scan order, as responses
RECURSIVE Results(_, _)
Results(rows, f) ==
    IF rows = <<>> THEN <<>>
    ELSE (IF Matches(JsonLoads(Head(rows).properties_json), f)
          THEN <<row_to_response(Head(rows))>> ELSE <<>>) \o Results(Tail(rows), f)

FilterNames == <<"is_palindrome", "min_length", "max_length", "word_count", "contains_character">>

\* the arguments that are not None, in the order of the five "if ... is not None"
RECURSIVE NotNone(_, _)
NotNone(f, names) ==
    IF names = <<>> THEN EmptyDict
    ELSE (IF Has(f, Head(names)) THEN <<<<Head(names), DictGet(f, Head(names), 0)>>>> ELSE <<>>)
            \o NotNone(f, Tail(names))

\* a variant without the min_length > max_length test
ListStringsUnchecked(f, rows) ==
    [ Reply("list_strings", 200, <<>>, Results(rows, f))
        EXCEPT !.count = Len(Results(rows, f)),
               !.filters_applied = NotNone(f, FilterNames),
               !.scanned = Len(rows) ]

\* list_strings(f...) reading the rows in the order "rows"; f holds the
\* arguments that are not None
list_strings(f, rows) ==
    IF /\ Has(f, "min_length") /\ Has(f, "max_length")
       /\ DictGet(f, "min_length", 0) > DictGet(f, "max_length", 0)
    THEN Reply("list_strings", 400, MinGreaterMaxMsg, <<>>)
    ELSE [ Reply("list_strings", 200, <<>>, Results(rows, f))
             EXCEPT !.count = Len(Results(rows, f)),
                    !.filters_applied = NotNone(f, FilterNames),
                    !.scanned = Len(rows) ]

\* nl_filter after list_strings returned r (lines 281-286), or raised
NlResult(query, parsed, r) ==
    IF r.status # 200
    THEN [r EXCEPT !.handler = "nl_filter"]
    ELSE [r EXCEPT !.handler = "nl_filter", !.interpreted_query = <<query, parsed>>]

\* nl_filter after parse_nl_query returned or raised p (lines 264-278)
NlParsed(query, p, rows) ==
    IF p.raised
    THEN (IF Contains(Lower(p.error), ConflictingWord)
          THEN Reply("nl_filter", 422, p.error, <<>>)
          ELSE Reply("nl_filter", 400, p.error, <<>>))
    ELSE NlResult(query, p.parsed, list_strings(NotNone(p.parsed, FilterNames), rows))

nl_filter(query, rows) == NlParsed(query, parse_nl_query(query), rows)

-----------------------------------------------------------------------------
(* The router: the routes in the order the decorators register them *)

\* "strings"
StringsSegment == <<"s", "t", "r", "i", "n", "g", "s">>

\* "filter-by-natural-language"
NlSegment ==
    <<"f", "i", "l", "t", "e", "r", "-", "b", "y", "-", "n", "a", "t", "u", "r", "a",
      "l", "-", "l", "a", "n", "g", "u", "a", "g", "e">>

Lit(text) == [param |-> FALSE, text |-> text]

Param == [param |-> TRUE, text |-> <<>>]

Routes ==
    << [method |-> "POST",   path |-> <<Lit(StringsSegment)>>,                 endpoint |-> "create_string"],
       [method |-> "GET",    path |-> <<Lit(StringsSegment), Param>>,          endpoint |-> "get_string"],
       [method |-> "GET",    path |-> <<Lit(StringsSegment)>>,                 endpoint |-> "list_strings"],
       [method |-> "GET",    path |-> <<Lit(StringsSegment), Lit(NlSegment)>>, endpoint |-> "nl_filter"],
       [method |-> "DELETE", path |-> <<Lit(StringsSegment), Param>>,          endpoint |-> "delete_string"],
       [method |-> "GET",    path |-> <<>>,                                    endpoint |-> "root"] >>

\* a path parameter matches any non-empty segment
RouteMatches(route, method, path) ==
    /\ route.method = method
    /\ Len(route.path) = Len(path)
    /\ \A i \in DOMAIN path :
          IF route.path[i].param THEN path[i] # <<>> ELSE route.path[i].text = path[i]

\* the first route that matches serves the request
Dispatch(method, path) ==
    LET hits == {i \in DOMAIN Routes : RouteMatches(Routes[i], method, path)}
    IN  IF hits = {} THEN "none"
        ELSE Routes[CHOOSE i \in hits : \A j \in hits : i <= j].endpoint

-----------------------------------------------------------------------------
(* The service: requests arrive and run on worker threads; create_string and
   delete_string read, then commit, and other requests run in between *)

\* worker threads: the requests that can be between their read and their commit
MaxInFlight == 2

\* the clock readings datetime.now can give are 0..MaxClock
MaxClock == 1

ValueA == <<"a">>

\* the strings clients submit: "a", and the digest of "a" as a string
Values == {ValueA, Sha256Hex(ValueA)}

\* the keys clients look up and delete: the values and their digests
Keys == Values \cup {Sha256Hex(v) : v \in Values}

\* "palindromes"
QueryPalindromes == <<"p", "a", "l", "i", "n", "d", "r", "o", "m", "e", "s">>

\* "xyz123"
QueryUnparsed == <<"x", "y", "z", "1", "2", "3">>

\* a request: the body of POST /strings (value), the filter arguments of
\* GET /strings (params), the query argument of the natural-language route
HttpRequest(method, path, value, params, query) ==
    [method |-> method, path |-> path, value |-> value, params |-> params, query |-> query]

NoRequest == HttpRequest("", <<>>, <<>>, EmptyDict, <<>>)

ListRequests ==
    { <<<<"is_palindrome", TRUE>>>>,
      <<<<"contains_character", "4">>>>,
      <<<<"min_length", 2>>, <<"max_length", 1>>>> }

Requests ==
    {HttpRequest("POST", <<StringsSegment>>, v, EmptyDict, <<>>) : v \in Values}
      \cup {HttpRequest(m, <<StringsSegment, k>>, <<>>, EmptyDict, <<>>) :
               m \in {"GET", "DELETE"}, k \in Keys}
      \cup {HttpRequest("GET", <<StringsSegment>>, <<>>, f, <<>>) : f \in ListRequests}
      \cup {HttpRequest("GET", <<StringsSegment, NlSegment>>, <<>>, EmptyDict, q) :
               q \in {QueryPalindromes, QueryUnparsed}}
      \cup {HttpRequest("GET", <<>>, <<>>, EmptyDict, <<>>)}

\* no output of a pure function yet
NoResult == [none |-> TRUE]

\* the reply r to request req goes out
Serve(req, r) == resp' = [request |-> req, reply |-> r]

\* a handler stops after its read, to commit later
Suspend(at, req, row) ==
    inflight' = inflight (+) SetToBag({[at |-> at, req |-> req, row |-> row]})

\* create_string up to the duplicate check (lines 157-166)
create_string(req) ==
    IF FirstById(store, compute_properties(req.value).sha256_hash) # {}
    THEN /\ Serve(req, Reply("create_string", 409, AlreadyExistsMsg, <<>>))
         /\ UNCHANGED <<store, inflight>>
    ELSE /\ Suspend("create_commit", req, {})
         /\ UNCHANGED <<store, resp>>

\* a variant for a table without the primary key and unique constraints
InsertUnchecked(req, row) ==
    /\ store' = store \cup {row}
    /\ Serve(req, Reply("create_string", 201, <<>>, <<row_to_response(row)>>))

\* the INSERT of row and the return, or the IntegrityError of a broken
\* constraint, which the service answers with 500
Insert(req, row) ==
    IF InsertAllowed(store, row)
    THEN /\ store' = store \cup {row}
         /\ Serve(req, Reply("create_string", 201, <<>>, <<row_to_response(row)>>))
    ELSE /\ Serve(req, Reply("create_string", 500, InternalErrorMsg, <<>>))
         /\ UNCHANGED store

\* create_string from datetime.now to the return (lines 169-180)
CreateCommit(k, now) ==
    /\ k.at = "create_commit"
    /\ inflight' = inflight (-) SetToBag({k})
    /\ Insert(k.req, StringEntry(k.req.value, compute_properties(k.req.value), now))
    /\ UNCHANGED <<arg, result>>

\* a variant that looks the key up by id before it looks it up by value
ResolveIdFirst(st, key) ==
    IF FirstById(st, key) # {} THEN FirstById(st, key) ELSE FirstByValue(st, key)

\* the row get_string and delete_string resolve: by value, else by id
Resolve(st, key) ==
    IF FirstByValue(st, key) # {} THEN FirstByValue(st, key) ELSE FirstById(st, key)

\* what get_string answers after its queries gave row (lines 192-195)
Found(row) ==
    IF row = {}
    THEN Reply("get_string", 404, DoesNotExistMsg, <<>>)
    ELSE Reply("get_string", 200, <<>>, <<row_to_response(CHOOSE r \in row : TRUE)>>)

get_string(req, string_value) ==
    /\ Serve(req, Found(Resolve(store, string_value)))
    /\ UNCHANGED <<store, inflight>>

\* delete_string after its queries gave row, up to the not-found check
DeleteFound(req, row) ==
    IF row = {}
    THEN /\ Serve(req, Reply("delete_string", 404, DoesNotExistMsg, <<>>))
         /\ UNCHANGED <<store, inflight>>
    ELSE /\ Suspend("delete_commit", req, row)
         /\ UNCHANGED <<store, resp>>

\* delete_string up to the not-found check (lines 292-299)
delete_string(req, string_value) == DeleteFound(req, Resolve(store, string_value))

\* db.delete(row); db.commit() (lines 301-304): DELETE by primary key; a row
\* that is already gone matches nothing and the request still answers 204
DeleteCommit(k) ==
    /\ k.at = "delete_commit"
    /\ inflight' = inflight (-) SetToBag({k})
    /\ store' = {r \in store : \A d \in k.row : r.id # d.id}
    /\ Serve(k.req, Reply("delete_string", 204, <<>>, <<>>))
    /\ UNCHANGED <<arg, result>>

\* the endpoint the router picked runs
Call(req, endpoint) ==
    IF endpoint = "create_string" THEN create_string(req)
    ELSE IF endpoint = "get_string" THEN get_string(req, req.path[2])
    ELSE IF endpoint = "list_strings"
         THEN /\ \E rows \in Scan(store) : Serve(req, list_strings(req.params, rows))
              /\ UNCHANGED <<store, inflight>>
    ELSE IF endpoint = "nl_filter"
         THEN /\ \E rows \in Scan(store) : Serve(req, nl_filter(req.query, rows))
              /\ UNCHANGED <<store, inflight>>
    ELSE IF endpoint = "delete_string" THEN delete_string(req, req.path[2])
    ELSE /\ endpoint = "root"
         /\ Serve(req, Reply("root", 200, <<>>, <<>>))
         /\ UNCHANGED <<store, inflight>>

\* a request arrives when a worker is free; the first route that matches serves it
Request(req) ==
    /\ BagCardinality(inflight) < MaxInFlight
    /\ Call(req, Dispatch(req.method, req.path))
    /\ UNCHANGED <<arg, result>>

Init ==
    /\ store = {}
    /\ inflight = EmptyBag
    /\ resp = [request |-> NoRequest, reply |-> NoReply]
    /\ arg = <<>>
    /\ result = NoResult

Next ==
    \/ \E req \in Requests : Request(req)
    \/ \E k \in BagToSet(inflight), now \in 0..MaxClock : CreateCommit(k, now)
    \/ \E k \in BagToSet(inflight) : DeleteCommit(k)

Spec == Init /\ [][Next]_vars

-----------------------------------------------------------------------------
(* The property engine on its own: every string over InputChars up to MaxLen *)

MaxLen == 4

InputChars == {"a", "A", "b", " "}

RECURSIVE StringsUpTo(_, _)
StringsUpTo(chars, n) ==
    IF n = 0 THEN {<<>>}
    ELSE LET shorter == StringsUpTo(chars, n - 1)
         IN  shorter \cup {Append(s, c) : s \in {t \in shorter : Len(t) = n - 1}, c \in chars}

InitProps ==
    /\ arg \in StringsUpTo(InputChars, MaxLen)
    /\ result = NoResult
    /\ store = {}
    /\ inflight = EmptyBag
    /\ resp = [request |-> NoRequest, reply |-> NoReply]

ComputeProperties ==
    /\ result = NoResult
    /\ result' = compute_properties(arg)
    /\ UNCHANGED <<store, inflight, resp, arg>>

NextProps == ComputeProperties

SpecProps == InitProps /\ [][NextProps]_vars

-----------------------------------------------------------------------------
(* list_strings and nl_filter called on a stored table: every filter set over
   small values, every query of up to MaxFragments fragments *)

MaxRows == 2

MaxFilter == 3

MaxFragments == 2

\* "", "z", "Aa", "a b"
QueryValues == {<<>>, <<"z">>, <<"A", "a">>, <<"a", " ", "b">>}

\* the tables of up to MaxRows rows that requests can build from QueryValues
QueryStores ==
    {{StringEntry(v, compute_properties(v), 0) : v \in S} :
        S \in {T \in SUBSET QueryValues : Cardinality(T) <= MaxRows}}

\* one optional argument: absent, or present with a value of vals
Optional(name, vals) == {<<>>} \cup {<<<<name, v>>>> : v \in vals}

FilterSets ==
    {a \o b \o c \o e \o g :
        a \in Optional("is_palindrome", BOOLEAN),
        b \in Optional("min_length", 0..MaxFilter),
        c \in Optional("max_length", 0..MaxFilter),
        e \in Optional("word_count", 0..MaxFilter),
        g \in Optional("contains_character", {"a", "z", " "})}

\* "single word"
FragSingleWord == <<"s", "i", "n", "g", "l", "e", " ", "w", "o", "r", "d">>

\* "One Word"
FragOneWord == <<"O", "n", "e", " ", "W", "o", "r", "d">>

\* "longer than 1"
FragLonger1 ==
    <<"l", "o", "n", "g", "e", "r", " ", "t", "h", "a", "n", " ", "1">>

\* "longer than 12"
FragLonger12 ==
    <<"l", "o", "n", "g", "e", "r", " ", "t", "h", "a", "n", " ", "1", "2">>

\* "Palindromic"
FragPalindromic == <<"P", "a", "l", "i", "n", "d", "r", "o", "m", "i", "c">>

\* "containing the letter z"
FragContainingZ ==
    <<"c", "o", "n", "t", "a", "i", "n", "i", "n", "g", " ", "t", "h", "e", " ", "l",
      "e", "t", "t", "e", "r", " ", "z">>

\* "contains letter b"
FragContainsB ==
    <<"c", "o", "n", "t", "a", "i", "n", "s", " ", "l", "e", "t", "t", "e", "r", " ",
      "b">>

\* "contain the letter"
FragContainThe ==
    <<"c", "o", "n", "t", "a", "i", "n", " ", "t", "h", "e", " ", "l", "e", "t", "t",
      "e", "r">>

\* "first vowel"
FragFirstVowel == <<"f", "i", "r", "s", "t", " ", "v", "o", "w", "e", "l">>

\* "xyz123"
FragUnparsed == <<"x", "y", "z", "1", "2", "3">>

Fragments ==
    {FragSingleWord, FragOneWord, FragLonger1, FragLonger12, FragPalindromic,
     FragContainingZ, FragContainsB, FragContainThe, FragFirstVowel, FragUnparsed}

\* the fragments of a query, joined by single spaces
RECURSIVE QueriesUpTo(_)
QueriesUpTo(n) ==
    IF n = 0 THEN {<<>>}
    ELSE IF n = 1 THEN {<<>>} \cup Fragments
    ELSE QueriesUpTo(n - 1)
           \cup {q \o <<" ">> \o f : q \in QueriesUpTo(n - 1) \ {<<>>}, f \in Fragments}

Queries == QueriesUpTo(MaxFragments)

InitQuery ==
    /\ store \in QueryStores
    /\ inflight = EmptyBag
    /\ resp = [request |-> NoRequest, reply |-> NoReply]
    /\ arg = <<>>
    /\ result = NoResult

\* list_strings(...) called with the filter set f
ListStrings(f) ==
    /\ resp.reply = NoReply
    /\ \E rows \in Scan(store) :
          Serve(HttpRequest("GET", <<StringsSegment>>, <<>>, f, <<>>), list_strings(f, rows))
    /\ UNCHANGED <<store, inflight, arg, result>>

\* nl_filter(query) called with the query q
NlFilter(q) ==
    /\ resp.reply = NoReply
    /\ \E rows \in Scan(store) :
          Serve(HttpRequest("GET", <<StringsSegment, NlSegment>>, <<>>, EmptyDict, q),
                nl_filter(q, rows))
    /\ UNCHANGED <<store, inflight, arg, result>>

NextQuery ==
    \/ \E f \in FilterSets : ListStrings(f)
    \/ \E q \in Queries : NlFilter(q)

SpecQuery == InitQuery /\ [][NextQuery]_vars

-----------------------------------------------------------------------------
(* Claims about compute_properties (SpecProps) *)

Occurrences(v, ch) == Cardinality({i \in DOMAIN v : v[i] = ch})

RECURSIVE SumCounts(_)
SumCounts(f) == IF f = <<>> THEN 0 ELSE Head(f)[2] + SumCounts(Tail(f))

\* C8: the keys of character_frequency_map are exactly the distinct characters
\* of the string (case and whitespace kept), each with its number of
\* occurrences; unique_characters is the number of keys, length the sum of the
\* counts, and the empty string gives 0, 0 and the empty map.
C8_FrequencyMap ==
    result # NoResult =>
        LET f == result.character_frequency_map
        IN  /\ DictKeys(f) = {arg[i] : i \in DOMAIN arg}
            /\ Len(f) = Cardinality(DictKeys(f))
            /\ \A i \in DOMAIN f : f[i][2] = Occurrences(arg, f[i][1])
            /\ result.unique_characters = Len(f)
            /\ result.length = SumCounts(f)
            /\ (arg = <<>> => result.length = 0 /\ result.unique_characters = 0 /\ f = <<>>)

\* "aA a": upper and lower case, a blank, a repeated character
C8_Witness ==
    /\ arg = <<"a", "A", " ", "a">>
    /\ result # NoResult
    /\ result.unique_characters = 3
    /\ DictGet(result.character_frequency_map, "a", 0) = 2

-----------------------------------------------------------------------------
(* Claims about parse_nl_query, nl_filter and list_strings (SpecQuery) *)

NlReplied == resp.reply.handler = "nl_filter"

ListReplied == resp.reply.handler = "list_strings"

\* the fields the rules that match the lower-cased text set
RuleFields(q_lower) ==
    (IF Rule1(q_lower) THEN {"word_count"} ELSE {})
      \cup (IF Rule2(q_lower) THEN {"min_length"} ELSE {})
      \cup (IF Rule3(q_lower) THEN {"is_palindrome"} ELSE {})
      \cup (IF Rule4(q_lower) \/ Rule5(q_lower) THEN {"contains_character"} ELSE {})

ParsedFilters == resp.reply.interpreted_query[2]

\* C5: parse_nl_query fails with "Unable to parse natural language query"
\* exactly when none of the five rules matches the lower-cased text; otherwise
\* it returns the fields the matching rules set and nothing else.
C5_ParseErrorIffNoRule ==
    NlReplied =>
        LET fields == RuleFields(Lower(resp.request.query))
        IN  /\ (resp.reply.detail = UnableToParseMsg) <=> (fields = {})
            /\ (fields = {}) => resp.reply.status = 400
            /\ fields # {} =>
                  /\ resp.reply.status = 200
                  /\ DictKeys(ParsedFilters) = fields
                  /\ Len(ParsedFilters) = Cardinality(fields)

\* "One Word Palindromic": rules 1 and 3 match
C5_Witness ==
    /\ NlReplied
    /\ resp.request.query = FragOneWord \o <<" ">> \o FragPalindromic
    /\ DictKeys(ParsedFilters) = {"word_count", "is_palindrome"}

\* C6: a text that mentions "first vowel" gives contains_character = "a", also
\* when the "letter X" rule matches with another X, wherever the phrases stand.
C6_FirstVowelWins ==
    (NlReplied /\ Rule5(Lower(resp.request.query))) =>
        /\ resp.reply.status = 200
        /\ DictGet(ParsedFilters, "contains_character", "") = "a"

\* "first vowel" stands before "containing the letter z"
C6_Witness ==
    /\ NlReplied
    /\ resp.request.query = FragFirstVowel \o <<" ">> \o FragContainingZ
    /\ DictGet(ParsedFilters, "contains_character", "") = "a"

\* what the filter set f asks of a record with properties props
Expected(props, f) ==
    /\ Has(f, "is_palindrome") => props.is_palindrome = DictGet(f, "is_palindrome", FALSE)
    /\ Has(f, "min_length") => props.length >= DictGet(f, "min_length", 0)
    /\ Has(f, "max_length") => props.length <= DictGet(f, "max_length", 0)
    /\ Has(f, "word_count") => props.word_count = DictGet(f, "word_count", 0)
    /\ Has(f, "contains_character") =>
          Occurrences(props.value, DictGet(f, "contains_character", "")) > 0

Returned == {resp.reply.data[i].value : i \in DOMAIN resp.reply.data}

\* C3: list_strings returns a stored record exactly when every filter field
\* that is present holds for it; the empty filter returns every record; count
\* is the number of entries returned.
C3_ListMatchesFilter ==
    (ListReplied /\ resp.reply.status = 200) =>
        /\ \A r \in store :
              r.value \in Returned <=>
                  Expected(compute_properties(r.value) @@ [value |-> r.value], resp.request.params)
        /\ Returned \subseteq {r.value : r \in store}
        /\ Len(resp.reply.data) = Cardinality(Returned)
        /\ resp.reply.count = Len(resp.reply.data)
        /\ (resp.request.params = EmptyDict => Cardinality(Returned) = Cardinality(store))

\* two rows stored, three fields present, one row returned
C3_Witness ==
    /\ ListReplied
    /\ resp.reply.status = 200
    /\ Cardinality(store) = 2
    /\ DictKeys(resp.request.params) = {"is_palindrome", "min_length", "contains_character"}
    /\ resp.reply.count = 1

MinAboveMax(f) ==
    /\ Has(f, "min_length")
    /\ Has(f, "max_length")
    /\ DictGet(f, "min_length", 0) > DictGet(f, "max_length", 0)

-----------------------------------------------------------------------------
(* Claims about the service (Spec) *)

\* every row is the row create_string builds for its value, and no two rows
\* share a value or an id
StoreWellFormed ==
    /\ \A r \in store :
          /\ r.id = Sha256Hex(r.value)
          /\ JsonLoads(r.properties_json) = compute_properties(r.value)
    /\ \A r1, r2 \in store : (r1.value = r2.value \/ r1.id = r2.id) => r1 = r2

\* a row that is stored before and after a step is the same row
RowsUntouched ==
    \A r1 \in store : \A r2 \in store' : (r1.value = r2.value \/ r1.id = r2.id) => r1 = r2

\* C1: after any sequence of create and delete requests every stored entry has
\* id = hash of its value and properties = compute_properties(value), no two
\* entries share a value or an id, and no step changes an entry that exists.
C1_StoreIntegrity == [](StoreWellFormed) /\ [][RowsUntouched]_vars

\* both values are stored, and a create has just been refused as a duplicate
C1_Witness ==
    /\ Cardinality(store) = 2
    /\ \E r1, r2 \in store : r1.id = r2.value
    /\ resp.reply.handler = "create_string"
    /\ resp.reply.status = 409

\* C2: every create request is answered with success (201, one entry added) or
\* with the conflict signal (409, store unchanged), also when two creates of
\* the same value overlap.
C2_CreateSucceedsOrConflicts ==
    resp.reply.handler = "create_string" => resp.reply.status \in {201, 409}

\* C4: a GET of /strings/filter-by-natural-language is answered by nl_filter,
\* never by get_string.
C4_NlRouteReachesTranslator ==
    (resp.request.method = "GET" /\ resp.request.path = <<StringsSegment, NlSegment>>)
        => resp.reply.handler = "nl_filter"

\* a delete request has just been answered with 204
DeleteSucceeds ==
    /\ resp' # resp
    /\ resp'.reply.handler = "delete_string"
    /\ resp'.reply.status = 204

\* C9: once a delete of key k has succeeded, get_string of k answers 404 (until
\* a create succeeds), whatever the store holds.
C9_DeletedKeyNotFound ==
    [][DeleteSucceeds => Found(Resolve(store', resp'.request.path[2])).status = 404]_vars

\* the entries a key stands for: the one with that value, else the one with
\* that id
Target(st, key) ==
    IF \E r \in st : r.value = key
    THEN {r \in st : r.value = key}
    ELSE {r \in st : r.id = key}

\* a handler in state "at" stops (+1) or resumes (-1) in this step
Moves(k, at, by) ==
    /\ k.at = at
    /\ CopiesIn(k, inflight') = CopiesIn(k, inflight) + by

InFlightEither == BagToSet(inflight) \cup BagToSet(inflight')

DeleteFrame ==
    /\ \A k \in InFlightEither :
          /\ Moves(k, "delete_commit", 1) =>
                /\ k.row = Target(store, k.req.path[2])
                /\ Cardinality(k.row) = 1
                /\ store' = store
          /\ Moves(k, "delete_commit", -1) =>
                /\ store' = {r \in store : \A d \in k.row : r.id # d.id}
                /\ Cardinality(store \ store') <= 1
                /\ resp'.reply.status = 204
    /\ (resp' # resp /\ resp'.reply.handler = "delete_string" /\ resp'.reply.status = 404) =>
          /\ Target(store, resp'.request.path[2]) = {}
          /\ store' = store
    /\ (resp' # resp /\ resp'.reply.handler = "get_string") =>
          /\ store' = store
          /\ {d.value : d \in {resp'.reply.data[i] : i \in DOMAIN resp'.reply.data}}
                = {r.value : r \in Target(store, resp'.request.path[2])}
          /\ resp'.reply.status = (IF Target(store, resp'.request.path[2]) = {} THEN 404 ELSE 200)

====
